---- MODULE Spec2Model ----
(***************************************************************************)
(* A model of src/server.js: the LINE webhook that buffers a user's texts  *)
(* (debounce), the flush pipeline that drafts a reply and stores it as a   *)
(* PENDING row, and the token-gated /review, /approve and /reject          *)
(* handlers.  Node runs one event loop: every `await` of a capability call *)
(* (LINE push, Sheets read/write, OpenAI) is a suspension point, so each   *)
(* handler is a process whose steps are the code between two awaits.       *)
(*                                                                         *)
(* Time is a discrete clock `now`.  A timer callback runs when its delay   *)
(* has elapsed and before any I/O completion of the same instant (the      *)
(* event loop runs due timers at the head of an iteration), so the clock   *)
(* does not pass a due timer and no other step runs while one is due.      *)
(*                                                                         *)
(* The whole program is Spec.  Its parts are checked one by one: the       *)
(* webhook with the flush pipeline (SpecInbound), the aggregator alone     *)
(* under fairness (SpecAggregator), the admin's links with overlapping     *)
(* requests (SpecApproval) and one at a time (SpecApprovalSeq), and the    *)
(* two pure functions of the context builder, formatRecentPairs            *)
(* (SpecFormat) and retrieveSimilarFromLogs (SpecRetrieve).                *)
(***************************************************************************)
EXTENDS Integers, Sequences, FiniteSets, TLC

(* ------------------------------ bounds -------------------------------- *)
\* Number of text messages the webhook receives in one run.
MaxMsgs == 2
\* Number of /review, /approve and /reject requests in one run.
MaxReqs == 2
\* Number of requests in a run in which no two requests overlap.
MaxSeqReqs == 3
\* Number of clock ticks in one run.
MaxTicks == 4
\* BATCH_WINDOW_SECONDS, scaled from its default of 60 to clock ticks.
WINDOW_SEC == 2
\* QUICK_NOTIFY_COOLDOWN_SEC, scaled from its default of 900 to clock ticks.
QUICK_COOLDOWN == 3
\* maxPairs / recentCount ("20") of buildUserContext, scaled.
RecentN == 2
\* charLimit ("2000") of buildUserContext, scaled.
CharLimit == 12
\* Longest list of exchanges formatRecentPairs is applied to.
MaxPairs == 3
\* Number of rows earlier runs of the process left in the line_bot sheet.
MaxPrior == 2
\* k ("3") of retrieveSimilarFromLogs, scaled.
TopK == 2
\* Number of rows of the line_bot sheet retrieveSimilarFromLogs ranks.
MaxLog == 4

(* --------------------------- program values --------------------------- *)
Users == {"u1", "u2"}
Admin == "admin"
\* `undefined`: an unset environment variable, a missing query parameter.
Undefined == "undefined"
Secret == "secret"
Wrong == "wrong"
\* What a request's `token` query parameter can be.
Tokens == {Undefined, Secret, Wrong}
\* What a request's `id` query parameter can be: 0 is a missing id, the rest
\* are rowIds (a rowId no row carries is an unknown id).
NoId == 0
\* A draft: the completion written for a batch's text, or the fixed reply
\* generateDraftWithContext falls back to.
Generated(userText) == [kind |-> "generated", for |-> userText]
Fallback == [kind |-> "fallback", for |-> <<>>]
\* No buffer, no row index, no rowId.
None == 0
\* No outcome yet.
Pending == "none"

VARIABLES
    ADMIN_USER_ID,   \* TRUE iff the environment sets ADMIN_USER_ID
    APPROVE_TOKEN,   \* Secret, or Undefined when the environment sets none
    now,             \* Date.now(), in ticks
    arrived,         \* history: arrived[m] = [user, at] of the m-th text event
    calls,           \* bufferIncoming calls suspended in the quick-notice push
    lastNotifiedAt,  \* the Map lastNotifiedAt (0: no entry)
    heap,            \* heap[b]: the texts array of buffer object b
    buffers,         \* the Map buffers: user -> buffer object (None: no entry)
    timers,          \* live setTimeout handles: [user, buf, due]
    flushes,         \* timer callbacks / processBatchedMessages runs, one per fired timer
    summaries,       \* the user_summaries sheet: userIds with a digest
    summarizeCalls,  \* history: summarizePairs completions requested, per user
    store,           \* the line_bot sheet: rows after the header
    reqs,            \* /review, /approve, /reject requests, in order of arrival
    pushes,          \* history: the lineClient.pushMessage invocations
    pairsIn,         \* a list of exchanges handed to formatRecentPairs
    recentStr,       \* [done, out]: whether formatRecentPairs ran, and its result
    query,           \* the userText handed to retrieveSimilarFromLogs
    similar          \* [done, out]: whether retrieveSimilarFromLogs ran, and the
                     \* rows it ranked

vars == <<ADMIN_USER_ID, APPROVE_TOKEN, now, arrived, calls, lastNotifiedAt,
          heap, buffers, timers, flushes, summaries, summarizeCalls, store,
          reqs, pushes, pairsIn, recentStr, query, similar>>

config == <<ADMIN_USER_ID, APPROVE_TOKEN>>
inbound == <<arrived, calls, lastNotifiedAt, heap, buffers, timers>>
sheets == <<summaries, store>>
retrieval == <<query, similar>>
\* What the context builder's pure functions are applied to, and return.
format == <<pairsIn, recentStr, retrieval>>

\* BASE_URL, which only the approval notice reads, is taken as set.
BASE_URL == TRUE

(* ------------------------- recent-history text ------------------------ *)
Max(a, b) == IF a >= b THEN a ELSE b

\* s.slice(-n) of an array or a string, n >= 0: the last n elements, and the
\* whole of s for n = 0 (-0 is 0).
SliceFromEnd(s, n) ==
    IF n = 0 THEN s ELSE SubSeq(s, Max(Len(s) - n, 0) + 1, Len(s))

Reverse(s) == [k \in 1..Len(s) |-> s[Len(s) + 1 - k]]

\* parts.join(sep), on strings as sequences of characters.
RECURSIVE Join(_, _)
Join(parts, sep) ==
    IF Len(parts) = 0 THEN <<>>
    ELSE IF Len(parts) = 1 THEN parts[1]
    ELSE parts[1] \o sep \o Join(Tail(parts), sep)

\* `U: ${p.user}\nA: ${p.asst}`.
RenderPair(p) == <<"U", ":", " ">> \o p.user \o <<"\n", "A", ":", " ">> \o p.asst

\* "\n---\n".
PairSeparator == <<"\n", "-", "-", "-", "\n">>

\* formatRecentPairs before its truncation: the last maxPairs exchanges,
\* newest first, rendered and joined.
RenderRecent(pairs, maxPairs) ==
    LET last == Reverse(SliceFromEnd(pairs, maxPairs))
    IN  Join([k \in 1..Len(last) |-> RenderPair(last[k])], PairSeparator)

\* formatRecentPairs(pairs, maxPairs, charLimit).
FormatRecentPairs(pairs, maxPairs, charLimit) ==
    LET out == RenderRecent(pairs, maxPairs)
    IN  IF Len(out) > charLimit THEN SliceFromEnd(out, charLimit) ELSE out

\* takeOlderForSummary(pairs, recentCount).
TakeOlderForSummary(pairs, recentCount) ==
    SubSeq(pairs, 1, Max(0, Len(pairs) - recentCount))

\* The exchanges formatRecentPairs is tried on: one-character texts.
Exchanges == [user : {<<"a">>, <<"b">>}, asst : {<<"x">>, <<"y">>}]
PairLists == UNION {[1..n -> Exchanges] : n \in 0..MaxPairs}

NotCalled == [done |-> FALSE, out |-> <<>>]

(* ------------------------- similarity retrieval ----------------------- *)
\* The characters of the texts retrieval is tried on: letters in both cases,
\* a space and a punctuation mark.
Letters == {"a", "b", "A"}

\* String.prototype.toLowerCase, on one character.
ToLowerCase(c) == IF c = "A" THEN "a" ELSE c

\* tokenize: lower-case, turn every character that is no letter, digit or
\* white space into a space, split at white space, drop the empty pieces.
\* `cur` is the piece being read.
RECURSIVE Tokenize(_, _)
Tokenize(s, cur) ==
    LET piece == IF cur = <<>> THEN {} ELSE {cur}
    IN  IF s = <<>> THEN piece
        ELSE IF Head(s) \in Letters
             THEN Tokenize(Tail(s), Append(cur, ToLowerCase(Head(s))))
             ELSE piece \cup Tokenize(Tail(s), <<>>)

\* keywordOverlapScore(a, b): the number of tokens of a that b has too.
KeywordOverlapScore(a, b) ==
    Cardinality(Tokenize(a, <<>>) \cap Tokenize(b, <<>>))

\* Where x goes into xs, a list sorted by descending score: after every
\* element whose score is not smaller (the sort is stable).
RECURSIVE InsertByScore(_, _)
InsertByScore(x, xs) ==
    IF xs = <<>> THEN <<x>>
    ELSE IF Head(xs).score >= x.score
         THEN <<Head(xs)>> \o InsertByScore(x, Tail(xs))
         ELSE <<x>> \o xs

\* xs.sort((a, b) => b.score - a.score): Array.prototype.sort is stable.
RECURSIVE SortByScore(_)
SortByScore(xs) ==
    IF xs = <<>> THEN <<>>
    ELSE InsertByScore(xs[Len(xs)], SortByScore(SubSeq(xs, 1, Len(xs) - 1)))

\* readApprovedLogRows without its test of the status column.
ReadAllLogRows(rows) ==
    SelectSeq(rows, LAMBDA r : r.userText # <<>>)

\* readApprovedLogRows: the rows with a userText, a draft (no stored draft is
\* empty) and status SENT, in sheet order.
ReadApprovedLogRows(rows) ==
    SelectSeq(rows, LAMBDA r : r.userText # <<>> /\ r.status = "SENT")

\* retrieveSimilarFromLogs(userText, k) up to ".map(x => x.row)": the rows it
\* goes on to render as numbered examples, in that order.
RetrieveSimilarFromLogs(userText, rows, k) ==
    LET approved == ReadApprovedLogRows(rows)
        scored == [j \in 1..Len(approved) |->
                     [row |-> approved[j],
                      score |-> KeywordOverlapScore(userText, approved[j].userText)]]
        ranked == SortByScore(SelectSeq(scored, LAMBDA x : x.score > 0))
        top == SubSeq(ranked, 1, IF Len(ranked) < k THEN Len(ranked) ELSE k)
    IN  [j \in 1..Len(top) |-> top[j].row]

\* The texts retrieval is tried on: "", "a", "a b", "A,a", "ab".
LogTexts == {<<>>, <<"a">>, <<"a", " ", "b">>, <<"A", ",", "a">>, <<"a", "b">>}

(* ------------------------------- Init --------------------------------- *)
\* A row of the line_bot sheet (columns B, D, E, F, G; the timestamp and the
\* display name are not modelled).
Row(userId, userText, draft, status, rowId) ==
    [userId |-> userId, userText |-> userText, draft |-> draft,
     status |-> status, rowId |-> rowId]

\* Date.now() at process start: an epoch time, far more than the cooldown
\* after 0.
StartTime == QUICK_COOLDOWN + 1

\* The values of column F.
Statuses == {"PENDING", "SENT", "REJECTED"}

\* The text of a batch an earlier run stored (this run's texts are numbered
\* from 1).
PriorText == <<0>>

\* The user of the k-th row earlier runs left.
PriorUser(k) == IF k % 2 = 1 THEN "u1" ELSE "u2"

\* The sheets an earlier run of the process can have left: up to MaxPrior rows,
\* rowIds unique, each row in any status.
PriorStores ==
    UNION {{[k \in 1..n |-> Row(PriorUser(k), PriorText, Generated(PriorText), st[k], k)] :
                st \in [1..n -> Statuses]} : n \in 0..MaxPrior}

\* A sheet in which u1 has more SENT rows than the recent window holds.
SentHistory ==
    [k \in 1..(RecentN + 1) |-> Row("u1", PriorText, Generated(PriorText), "SENT", k)]

\* The process has just started: its maps are empty, nothing is in flight.
Started ==
    /\ now = StartTime
    /\ arrived = <<>>
    /\ calls = {}
    /\ lastNotifiedAt = [u \in Users |-> 0]
    /\ heap = <<>>
    /\ buffers = [u \in Users |-> None]
    /\ timers = {}
    /\ flushes = <<>>
    /\ summarizeCalls = [u \in Users |-> 0]
    /\ reqs = <<>>
    /\ pushes = {}
    /\ pairsIn = <<>>
    /\ recentStr = NotCalled
    /\ query = <<>>
    /\ similar = NotCalled

Init ==
    /\ ADMIN_USER_ID \in BOOLEAN
    /\ APPROVE_TOKEN \in {Secret, Undefined}
    /\ Started
    /\ summaries = {}
    /\ store \in PriorStores \cup {SentHistory}

\* formatRecentPairs alone, on any list of exchanges.
InitFormat ==
    /\ ADMIN_USER_ID = TRUE
    /\ APPROVE_TOKEN = Secret
    /\ now = StartTime
    /\ arrived = <<>>
    /\ calls = {}
    /\ lastNotifiedAt = [u \in Users |-> 0]
    /\ heap = <<>>
    /\ buffers = [u \in Users |-> None]
    /\ timers = {}
    /\ flushes = <<>>
    /\ summarizeCalls = [u \in Users |-> 0]
    /\ reqs = <<>>
    /\ pushes = {}
    /\ summaries = {}
    /\ store = <<>>
    /\ pairsIn \in PairLists
    /\ recentStr = NotCalled
    /\ query = <<>>
    /\ similar = NotCalled

\* The statuses of the rows retrieval is tried on: SENT, and one that is not
\* (the code tests the column against "SENT" only).
LogStatuses == {"SENT", "PENDING"}

\* A sheet retrieval is tried on: n rows of both users, with the texts tx and
\* the statuses st.
LogStore(n, tx, st) ==
    [k \in 1..n |-> Row(PriorUser(k), tx[k], Generated(tx[k]), st[k], k)]

\* retrieveSimilarFromLogs alone, on any query and any sheet of up to MaxLog
\* rows, each with any of the texts, sent or not.
InitRetrieve ==
    /\ ADMIN_USER_ID = TRUE
    /\ APPROVE_TOKEN = Secret
    /\ now = StartTime
    /\ arrived = <<>>
    /\ calls = {}
    /\ lastNotifiedAt = [u \in Users |-> 0]
    /\ heap = <<>>
    /\ buffers = [u \in Users |-> None]
    /\ timers = {}
    /\ flushes = <<>>
    /\ summarizeCalls = [u \in Users |-> 0]
    /\ reqs = <<>>
    /\ pushes = {}
    /\ summaries = {}
    /\ \E n \in 0..MaxLog :
          \E tx \in [1..n -> LogTexts], st \in [1..n -> LogStatuses] :
              store = LogStore(n, tx, st)
    /\ pairsIn = <<>>
    /\ recentStr = NotCalled
    /\ query \in LogTexts
    /\ similar = NotCalled

\* The start of a run in which only the webhook is called.
InitInbound ==
    /\ ADMIN_USER_ID \in BOOLEAN
    /\ APPROVE_TOKEN \in {Secret, Undefined}
    /\ Started
    /\ summaries = {}
    /\ store \in {<<>>, SentHistory}

\* The start of a run of the aggregator: the sheet is empty.
InitAggregator ==
    /\ ADMIN_USER_ID \in BOOLEAN
    /\ APPROVE_TOKEN \in {Secret, Undefined}
    /\ Started
    /\ summaries = {}
    /\ store = <<>>

\* The start of a run in which the admin's links are called one at a time:
\* a secret is configured and the sheet holds one row, stored PENDING.
InitApprovalSeq ==
    /\ ADMIN_USER_ID = TRUE
    /\ APPROVE_TOKEN = Secret
    /\ Started
    /\ summaries = {}
    /\ store = <<Row("u1", PriorText, Generated(PriorText), "PENDING", 1)>>

\* The start of a run in which only the admin's links are called.
InitApproval ==
    /\ ADMIN_USER_ID = TRUE
    /\ APPROVE_TOKEN \in {Secret, Undefined}
    /\ Started
    /\ summaries = {}
    /\ store \in PriorStores

(* ------------------------- inbound aggregator ------------------------- *)
\* A due timer: its callback runs before anything else.
TimerDue == \E t \in timers : t.due <= now

\* One lineClient.pushMessage invocation, kept as history: `by` names the
\* invoking call (a message's bufferIncoming, a flush, a request).
Push(to, kind, by, text, ok) ==
    [to |-> to, kind |-> kind, by |-> by, text |-> text, ok |-> ok]

\* The texts of the two admin notices, named by what they quote.
QuickNotice(m) == [kind |-> "received", for |-> <<m>>]
ApprovalNotice(userText) == [kind |-> "review", for |-> userText]

\* BufferText without "if (buf.timer) clearTimeout(buf.timer)".
BufferTextNoCancel(userId, m) ==
    LET fresh == buffers[userId] = None
        b == IF fresh THEN Len(heap) + 1 ELSE buffers[userId]
        texts == IF fresh THEN <<>> ELSE heap[b]
    IN  /\ heap' = IF fresh THEN Append(heap, Append(texts, m))
                   ELSE [heap EXCEPT ![b] = Append(texts, m)]
        /\ timers' = timers \cup {[user |-> userId, buf |-> b, due |-> now + WINDOW_SEC]}
        /\ buffers' = [buffers EXCEPT ![userId] = b]

\* bufferIncoming from "const buf = buffers.get(userId) || ..." on: append the
\* text, clearTimeout the buffer's timer, arm a new one, put the buffer back.
BufferText(userId, m) ==
    LET fresh == buffers[userId] = None
        b == IF fresh THEN Len(heap) + 1 ELSE buffers[userId]
        texts == IF fresh THEN <<>> ELSE heap[b]
    IN  /\ heap' = IF fresh THEN Append(heap, Append(texts, m))
                   ELSE [heap EXCEPT ![b] = Append(texts, m)]
        /\ timers' = {t \in timers : t.buf # b}
                        \cup {[user |-> userId, buf |-> b, due |-> now + WINDOW_SEC]}
        /\ buffers' = [buffers EXCEPT ![userId] = b]

\* The quick-notice guard: ADMIN_USER_ID set and now - last > QUICK_COOLDOWN.
QuickNotifyDue(userId) ==
    /\ ADMIN_USER_ID
    /\ now - lastNotifiedAt[userId] > QUICK_COOLDOWN

\* POST /callback with one text event of userId, up to bufferIncoming's first
\* await (the quick-notice push) or, when no notice is due, to its end.  The
\* events of one request are handled one after the other, each awaited, so a
\* request of several events behaves as that many requests in a row.
Receive(userId) ==
    /\ ~TimerDue
    /\ Len(arrived) < MaxMsgs
    /\ LET m == Len(arrived) + 1
       IN  /\ arrived' = Append(arrived, [user |-> userId, at |-> now])
           /\ IF QuickNotifyDue(userId)
              THEN /\ calls' = calls \cup {[msg |-> m, user |-> userId, now |-> now]}
                   /\ UNCHANGED <<heap, buffers, timers>>
              ELSE /\ BufferText(userId, m)
                   /\ UNCHANGED calls
    /\ UNCHANGED <<config, format, now, lastNotifiedAt, flushes, sheets, summarizeCalls,
                   reqs, pushes>>

\* The quick-notice push resolves or rejects; bufferIncoming runs to its end.
QuickNotifyReturn(c, ok) ==
    /\ ~TimerDue
    /\ c \in calls
    /\ calls' = calls \ {c}
    /\ pushes' = pushes \cup {Push(Admin, "quick", c.msg, QuickNotice(c.msg), ok)}
    /\ lastNotifiedAt' = IF ok THEN [lastNotifiedAt EXCEPT ![c.user] = c.now]
                         ELSE lastNotifiedAt
    /\ BufferText(c.user, c.msg)
    /\ UNCHANGED <<config, format, now, arrived, flushes, sheets, summarizeCalls, reqs>>

\* Whether anything still reads the clock: a text to come, a suspended
\* bufferIncoming (it arms its timer when it resumes), a live timer.
ClockRead == Len(arrived) < MaxMsgs \/ calls # {} \/ timers # {}

\* The clock advances, never past a due timer.
Tick ==
    /\ ~TimerDue
    /\ ClockRead
    /\ now < StartTime + MaxTicks
    /\ now' = now + 1
    /\ UNCHANGED <<config, format, inbound, flushes, sheets, summarizeCalls, reqs, pushes>>

\* After MaxTicks ticks the clock runs on to the timers that are still live.
TickOn ==
    /\ ~TimerDue
    /\ timers # {}
    /\ now >= StartTime + MaxTicks
    /\ now' = now + 1
    /\ UNCHANGED <<config, format, inbound, flushes, sheets, summarizeCalls, reqs, pushes>>

\* A flush: the timer callback's run of processBatchedMessages.
Flush(userId, texts) ==
    [user |-> userId, texts |-> texts, pc |-> "context", pairs |-> 0,
     gen |-> Pending, append |-> Pending, rowId |-> None]

\* TimerFire without "buffers.delete(userId)": the buffer stays in the map.
TimerFireKeep(t) ==
    /\ t \in timers
    /\ t.due <= now
    /\ timers' = timers \ {t}
    /\ flushes' = Append(flushes, Flush(t.user, heap[t.buf]))
    /\ UNCHANGED <<config, format, now, arrived, calls, lastNotifiedAt, heap, buffers,
                   sheets, summarizeCalls, reqs, pushes>>

\* The setTimeout callback, to processBatchedMessages' first await.
TimerFire(t) ==
    /\ t \in timers
    /\ t.due <= now
    /\ timers' = timers \ {t}
    /\ buffers' = [buffers EXCEPT ![t.user] = None]
    /\ flushes' = Append(flushes, Flush(t.user, heap[t.buf]))
    /\ UNCHANGED <<config, format, now, arrived, calls, lastNotifiedAt, heap, sheets,
                   summarizeCalls, reqs, pushes>>

(* --------------------------- flush pipeline --------------------------- *)
\* The texts of a batch joined with the separator line: texts.join("\n——\n").
\* A text is named by its message number, so the joined text is the sequence.
JoinTexts(texts) == texts

Fail(f) == [f EXCEPT !.pc = "failed"]

\* getAllPairs: the rows of userId with status SENT, in sheet order.
AllPairs(userId) ==
    SelectSeq(store, LAMBDA r : r.userId = userId /\ r.status = "SENT")

\* processBatchedMessages up to buildUserContext's getAllPairs: getProfile
\* (a failure leaves the display name empty), upsertUser and the read of the
\* log sheet; a failure of either of the last two is thrown to the timer
\* callback, which logs it.
FlushContext(i, ok) ==
    /\ ~TimerDue
    /\ i \in DOMAIN flushes
    /\ flushes[i].pc = "context"
    /\ flushes' = [flushes EXCEPT ![i] =
            IF ok THEN [@ EXCEPT !.pc = "summary",
                                 !.pairs = Len(AllPairs(flushes[i].user))]
            ELSE Fail(@)]
    /\ UNCHANGED <<config, format, now, inbound, sheets, summarizeCalls, reqs, pushes>>

\* buildUserContext: getLongSummary, then "!longSummary && allPairs.length > 20".
FlushSummary(i, ok) ==
    /\ ~TimerDue
    /\ i \in DOMAIN flushes
    /\ flushes[i].pc = "summary"
    /\ LET f == flushes[i]
           longSummary == f.user \in summaries
       IN  flushes' = [flushes EXCEPT ![i] =
              IF ~ok THEN Fail(@)
              ELSE IF ~longSummary /\ f.pairs > RecentN
                   THEN [@ EXCEPT !.pc = "summarize"]
                   ELSE [@ EXCEPT !.pc = "draft"]]
    /\ UNCHANGED <<config, format, now, inbound, sheets, summarizeCalls, reqs, pushes>>

\* What a text-generation call can do.
GenOutcomes == {"text", "empty", "throws"}

\* summarizePairs on the older pairs: one completion request; an empty result
\* or a failure (caught in buildUserContext) leaves no summary.
FlushSummarize(i, out) ==
    /\ ~TimerDue
    /\ i \in DOMAIN flushes
    /\ flushes[i].pc = "summarize"
    /\ summarizeCalls' = [summarizeCalls EXCEPT ![flushes[i].user] = @ + 1]
    /\ flushes' = [flushes EXCEPT ![i].pc =
                      IF out = "text" THEN "saveSummary" ELSE "draft"]
    /\ UNCHANGED <<config, format, now, inbound, sheets, reqs, pushes>>

\* upsertLongSummary; its failure is caught in buildUserContext.
FlushSaveSummary(i, ok) ==
    /\ ~TimerDue
    /\ i \in DOMAIN flushes
    /\ flushes[i].pc = "saveSummary"
    /\ summaries' = IF ok THEN summaries \cup {flushes[i].user} ELSE summaries
    /\ flushes' = [flushes EXCEPT ![i].pc = "draft"]
    /\ UNCHANGED <<config, format, now, inbound, store, summarizeCalls, reqs, pushes>>

\* generateDraftWithContext's completion request: the text, the fallback for
\* an empty result; a failure is thrown.
GenerateDraft(out, userText) ==
    [throws |-> out = "throws",
     draft |-> IF out = "text" THEN Generated(userText) ELSE Fallback]

\* The approval notice of processBatchedMessages is sent under this guard.
ApprovalNotifyDue == ADMIN_USER_ID /\ APPROVE_TOKEN # Undefined /\ BASE_URL

\* The rest of processBatchedMessages: retrieveSimilarFromLogs (its failure is
\* caught), the completion request, appendRow of the PENDING row with a new
\* rowId, and the approval notice (its failure is caught).
FlushDraft(i, out, appendOk, notifyOk) ==
    /\ ~TimerDue
    /\ i \in DOMAIN flushes
    /\ flushes[i].pc = "draft"
    /\ LET f == flushes[i]
           userText == JoinTexts(f.texts)
           gen == GenerateDraft(out, userText)
           draft == gen.draft
           rowId == Len(store) + 1
       IN  IF gen.throws
           THEN /\ flushes' = [flushes EXCEPT ![i] = [Fail(@) EXCEPT !.gen = out]]
                /\ appendOk /\ notifyOk
                /\ UNCHANGED <<store, pushes>>
           ELSE IF ~appendOk
           THEN /\ flushes' = [flushes EXCEPT ![i] =
                                  [Fail(@) EXCEPT !.gen = out, !.append = "throws"]]
                /\ notifyOk
                /\ UNCHANGED <<store, pushes>>
           ELSE /\ store' = Append(store, Row(f.user, userText, draft, "PENDING", rowId))
                /\ flushes' = [flushes EXCEPT ![i] =
                                  [@ EXCEPT !.pc = "done", !.gen = out,
                                            !.append = "ok", !.rowId = rowId]]
                /\ IF ApprovalNotifyDue
                   THEN pushes' = pushes \cup
                            {Push(Admin, "approval", i, ApprovalNotice(userText), notifyOk)}
                   ELSE notifyOk /\ UNCHANGED pushes
    /\ UNCHANGED <<config, format, now, inbound, summaries, summarizeCalls, reqs>>

(* -------------------------- approval workflow ------------------------- *)
Ops == {"review", "approve", "reject"}

\* findRowById: the index of the first row whose rowId is id, or None.
FindRowById(id) ==
    IF \E k \in DOMAIN store : store[k].rowId = id
    THEN CHOOSE k \in DOMAIN store :
            /\ store[k].rowId = id
            /\ \A j \in DOMAIN store : store[j].rowId = id => k <= j
    ELSE None

\* "if (!id || token !== APPROVE_TOKEN) return res.status(403)".
Forbidden(id, token) == id = NoId \/ token # APPROVE_TOKEN

\* The ids a request can name: none, a row's, or one no row carries.
RequestIds == 0..(Len(store) + 1)

\* What a request holds before findRowById has returned a row.
NoRow == Row("", <<>>, Fallback, Pending, None)

\* A request: `was` (the named row's status when the request arrived) and
\* `writes` (its updateStatus calls) are history.
Request(op, id, token, pc, result) ==
    [op |-> op, id |-> id, token |-> token, pc |-> pc, result |-> result,
     index |-> None, row |-> NoRow, writes |-> 0,
     was |-> IF FindRowById(id) = None THEN Pending ELSE store[FindRowById(id)].status]

\* A GET /review, /approve or /reject, up to its await of findRowById.
ReqStart(op, id, token) ==
    /\ ~TimerDue
    /\ Len(reqs) < MaxReqs
    /\ reqs' = Append(reqs,
                 IF Forbidden(id, token)
                 THEN Request(op, id, token, "done", "Forbidden")
                 ELSE Request(op, id, token, "find", Pending))
    /\ UNCHANGED <<config, format, now, inbound, flushes, sheets, summarizeCalls, pushes>>

\* A GET /review, /approve or /reject that arrives when every earlier request
\* has been answered.
ReqStartAlone(op, id, token) ==
    /\ ~TimerDue
    /\ Len(reqs) < MaxSeqReqs
    /\ \A i \in DOMAIN reqs : reqs[i].pc = "done"
    /\ reqs' = Append(reqs,
                 IF Forbidden(id, token)
                 THEN Request(op, id, token, "done", "Forbidden")
                 ELSE Request(op, id, token, "find", Pending))
    /\ UNCHANGED <<config, format, now, inbound, flushes, sheets, summarizeCalls, pushes>>

Respond(r, result) == [r EXCEPT !.pc = "done", !.result = result]

\* ReqFind without /approve's "if (status === 'SENT') return": a row already
\* sent goes on to the push like any other.
ReqFindBlind(i, ok) ==
    /\ ~TimerDue
    /\ i \in DOMAIN reqs
    /\ reqs[i].pc = "find"
    /\ LET r == reqs[i]
           k == FindRowById(r.id)
       IN  reqs' = [reqs EXCEPT ![i] =
              IF ~ok THEN Respond(@, "ServerError")
              ELSE IF k = None THEN Respond(@, "NotFound")
              ELSE IF r.op = "review" THEN Respond([@ EXCEPT !.row = store[k]], "Page")
              ELSE IF r.op = "reject" THEN [@ EXCEPT !.pc = "update", !.index = k]
              ELSE [@ EXCEPT !.pc = "send", !.index = k, !.row = store[k]]]
    /\ UNCHANGED <<config, format, now, inbound, flushes, sheets, summarizeCalls, pushes>>

\* ReqFind with /reject refusing a row whose status has left PENDING.
ReqFindTerminal(i, ok) ==
    /\ ~TimerDue
    /\ i \in DOMAIN reqs
    /\ reqs[i].pc = "find"
    /\ LET r == reqs[i]
           k == FindRowById(r.id)
       IN  reqs' = [reqs EXCEPT ![i] =
              IF ~ok THEN Respond(@, "ServerError")
              ELSE IF k = None THEN Respond(@, "NotFound")
              ELSE IF r.op = "review" THEN Respond([@ EXCEPT !.row = store[k]], "Page")
              ELSE IF r.op = "reject"
                   THEN IF store[k].status = "PENDING"
                        THEN [@ EXCEPT !.pc = "update", !.index = k]
                        ELSE Respond(@, "Conflict")
              ELSE IF store[k].status = "SENT"
                   THEN Respond([@ EXCEPT !.row = store[k]], "AlreadySent")
                   ELSE [@ EXCEPT !.pc = "send", !.index = k, !.row = store[k]]]
    /\ UNCHANGED <<config, format, now, inbound, flushes, sheets, summarizeCalls, pushes>>

\* findRowById returns (or throws: "Server error") and the handler runs to
\* its next await.
ReqFind(i, ok) ==
    /\ ~TimerDue
    /\ i \in DOMAIN reqs
    /\ reqs[i].pc = "find"
    /\ LET r == reqs[i]
           k == FindRowById(r.id)
       IN  reqs' = [reqs EXCEPT ![i] =
              IF ~ok THEN Respond(@, "ServerError")
              ELSE IF k = None THEN Respond(@, "NotFound")
              ELSE IF r.op = "review" THEN Respond([@ EXCEPT !.row = store[k]], "Page")
              ELSE IF r.op = "reject" THEN [@ EXCEPT !.pc = "update", !.index = k]
              ELSE IF store[k].status = "SENT"
                   THEN Respond([@ EXCEPT !.row = store[k]], "AlreadySent")
                   ELSE [@ EXCEPT !.pc = "send", !.index = k, !.row = store[k]]]
    /\ UNCHANGED <<config, format, now, inbound, flushes, sheets, summarizeCalls, pushes>>

\* ReqSend with the push's failure caught and logged, as the admin notices'
\* is: the handler goes on to updateStatus.
ReqSendSwallow(i, ok) ==
    /\ ~TimerDue
    /\ i \in DOMAIN reqs
    /\ reqs[i].pc = "send"
    /\ LET r == reqs[i]
       IN  /\ pushes' = pushes \cup {Push(r.row.userId, "draft", i, r.row.draft, ok)}
           /\ reqs' = [reqs EXCEPT ![i].pc = "update"]
    /\ UNCHANGED <<config, format, now, inbound, flushes, sheets, summarizeCalls>>

\* /approve: pushMessage(userId, draft) returns or throws.
ReqSend(i, ok) ==
    /\ ~TimerDue
    /\ i \in DOMAIN reqs
    /\ reqs[i].pc = "send"
    /\ LET r == reqs[i]
       IN  /\ pushes' = pushes \cup {Push(r.row.userId, "draft", i, r.row.draft, ok)}
           /\ reqs' = [reqs EXCEPT ![i] =
                  IF ok THEN [@ EXCEPT !.pc = "update"] ELSE Respond(@, "ServerError")]
    /\ UNCHANGED <<config, format, now, inbound, flushes, sheets, summarizeCalls>>

\* updateStatus(rowIndex, status) returns or throws.
ReqUpdate(i, ok) ==
    /\ ~TimerDue
    /\ i \in DOMAIN reqs
    /\ reqs[i].pc = "update"
    /\ LET r == reqs[i]
           status == IF r.op = "approve" THEN "SENT" ELSE "REJECTED"
       IN  /\ store' = IF ok THEN [store EXCEPT ![r.index].status = status] ELSE store
           /\ reqs' = [reqs EXCEPT ![i] =
                  Respond([@ EXCEPT !.writes = @ + 1],
                          IF ok THEN "Ok" ELSE "ServerError")]
    /\ UNCHANGED <<config, format, now, inbound, flushes, summaries, summarizeCalls, pushes>>

(* ---------------------------- specification --------------------------- *)
\* The webhook's side: bufferIncoming, the timers and the flush pipeline.
NextInbound ==
    \/ \E u \in Users : Receive(u)
    \/ \E c \in calls, ok \in BOOLEAN : QuickNotifyReturn(c, ok)
    \/ Tick
    \/ \E t \in timers : TimerFire(t)
    \/ \E i \in DOMAIN flushes, ok \in BOOLEAN : FlushContext(i, ok)
    \/ \E i \in DOMAIN flushes, ok \in BOOLEAN : FlushSummary(i, ok)
    \/ \E i \in DOMAIN flushes, out \in GenOutcomes : FlushSummarize(i, out)
    \/ \E i \in DOMAIN flushes, ok \in BOOLEAN : FlushSaveSummary(i, ok)
    \/ \E i \in DOMAIN flushes, out \in GenOutcomes, a \in BOOLEAN, n \in BOOLEAN :
            FlushDraft(i, out, a, n)

\* The aggregator: bufferIncoming and the timers, up to the hand-over of a
\* batch to processBatchedMessages.
NextAggregator ==
    \/ \E u \in Users : Receive(u)
    \/ \E c \in calls, ok \in BOOLEAN : QuickNotifyReturn(c, ok)
    \/ Tick
    \/ TickOn
    \/ \E t \in timers : TimerFire(t)

\* The admin's side: /review, /approve and /reject.
NextApproval ==
    \/ \E op \in Ops, id \in RequestIds, token \in Tokens : ReqStart(op, id, token)
    \/ \E i \in DOMAIN reqs, ok \in BOOLEAN : ReqFind(i, ok)
    \/ \E i \in DOMAIN reqs, ok \in BOOLEAN : ReqSend(i, ok)
    \/ \E i \in DOMAIN reqs, ok \in BOOLEAN : ReqUpdate(i, ok)

\* The admin's side when the admin waits for each answer before the next
\* click: no two requests overlap.
NextApprovalSeq ==
    \/ \E op \in Ops, id \in RequestIds, token \in Tokens : ReqStartAlone(op, id, token)
    \/ \E i \in DOMAIN reqs, ok \in BOOLEAN : ReqFind(i, ok)
    \/ \E i \in DOMAIN reqs, ok \in BOOLEAN : ReqSend(i, ok)
    \/ \E i \in DOMAIN reqs, ok \in BOOLEAN : ReqUpdate(i, ok)

\* buildUserContext's call formatRecentPairs(allPairs, 20, 2000).
Format ==
    /\ ~recentStr.done
    /\ recentStr' = [done |-> TRUE,
                     out |-> FormatRecentPairs(pairsIn, RecentN, CharLimit)]
    /\ UNCHANGED <<config, now, inbound, flushes, sheets, summarizeCalls, reqs,
                   pushes, pairsIn, retrieval>>

NextFormat == Format

\* generateDraftWithContext's call retrieveSimilarFromLogs(userText, 3): the
\* read of the sheet returns, or throws and the catch returns no example.
Retrieve(ok) ==
    /\ ~similar.done
    /\ similar' = [done |-> TRUE,
                   out |-> IF ok THEN RetrieveSimilarFromLogs(query, store, TopK)
                           ELSE <<>>]
    /\ UNCHANGED <<config, now, inbound, flushes, sheets, summarizeCalls, reqs,
                   pushes, pairsIn, recentStr, query>>

NextRetrieve == \E ok \in BOOLEAN : Retrieve(ok)

Next == NextInbound \/ NextApproval

\* The whole program.
Spec == Init /\ [][Next]_vars

\* The program while only the webhook is called.
SpecInbound == InitInbound /\ [][NextInbound]_vars

\* The aggregator alone: every quick-notice push settles, time passes and a
\* due timer's callback runs.
SpecAggregator ==
    /\ InitAggregator
    /\ [][NextAggregator]_vars
    /\ WF_vars(\E c \in calls, ok \in BOOLEAN : QuickNotifyReturn(c, ok))
    /\ WF_vars(Tick \/ TickOn)
    /\ WF_vars(\E t \in timers : TimerFire(t))

\* The program while only the admin's links are called.
SpecApproval == InitApproval /\ [][NextApproval]_vars

\* The admin's links called one at a time.
SpecApprovalSeq == InitApprovalSeq /\ [][NextApprovalSeq]_vars

\* formatRecentPairs applied to each list of exchanges.
SpecFormat == InitFormat /\ [][NextFormat]_vars

\* retrieveSimilarFromLogs applied to each query and sheet.
SpecRetrieve == InitRetrieve /\ [][NextRetrieve]_vars

(* ------------------------------- claims ------------------------------- *)
\* A valid token: the request carries one and it is the configured secret.
ValidToken(token) == token # Undefined /\ token = APPROVE_TOKEN

\* The pushes of a draft made by request i.
DraftPushesBy(i) == {p \in pushes : p.kind = "draft" /\ p.by = i}

\* C1: every push to an end user carries a row's draft and is made by an
\* /approve request that carried a valid token and that row's id; the webhook,
\* the timers and the flush pipeline push to the admin only.
C1_HumanInTheLoopGate ==
    \A p \in pushes :
        p.to # Admin =>
            /\ p.kind = "draft"
            /\ p.by \in DOMAIN reqs
            /\ reqs[p.by].op = "approve"
            /\ ValidToken(reqs[p.by].token)
            /\ FindRowById(reqs[p.by].id) # None
            /\ p.text = store[FindRowById(reqs[p.by].id)].draft
            /\ p.to = store[FindRowById(reqs[p.by].id)].userId

\* Text n is the next text of the same user after text m.
SameUserNext(m, n) ==
    /\ m < n
    /\ arrived[m].user = arrived[n].user
    /\ \A k \in (m + 1)..(n - 1) : arrived[k].user # arrived[m].user

\* The time between the arrivals of texts m and n.
Gap(m, n) == arrived[n].at - arrived[m].at

\* Text m is in the batch of flush i.
InBatch(m, i) == \E k \in DOMAIN flushes[i].texts : flushes[i].texts[k] = m

\* Text n follows text m directly in the batch of flush i.
Adjacent(m, n, i) ==
    \E k \in 1..(Len(flushes[i].texts) - 1) :
        flushes[i].texts[k] = m /\ flushes[i].texts[k + 1] = n

\* C2: two successive texts of a user that arrive less than WINDOW_SEC apart
\* are flushed in one batch, in arrival order, and no text is flushed twice: a
\* run of such texts makes exactly one flush, holding all of them in order.
C2_Debounce ==
    /\ \A m \in DOMAIN arrived, n \in DOMAIN arrived :
          (SameUserNext(m, n) /\ Gap(m, n) < WINDOW_SEC) =>
              \A i \in DOMAIN flushes :
                  (InBatch(m, i) \/ InBatch(n, i)) => Adjacent(m, n, i)
    /\ \A m \in DOMAIN arrived :
          Cardinality({i \in DOMAIN flushes : InBatch(m, i)}) <= 1

\* C3: two successive texts of a user that arrive WINDOW_SEC or more apart
\* are never flushed in the same batch.
C3_GapSplits ==
    \A m \in DOMAIN arrived, n \in DOMAIN arrived :
        (SameUserNext(m, n) /\ Gap(m, n) >= WINDOW_SEC) =>
            \A i \in DOMAIN flushes : ~(InBatch(m, i) /\ InBatch(n, i))

\* C4: when the only two requests on a PENDING row are /approve requests with
\* a valid token and both have answered without a failure, the draft was
\* pushed exactly once and the row's status is SENT, however the two overlap.
C4_ApproveAtMostOnce ==
    \A i \in DOMAIN reqs, j \in DOMAIN reqs :
        ( /\ i < j
          /\ reqs[i].op = "approve" /\ reqs[j].op = "approve"
          /\ reqs[i].id = reqs[j].id
          /\ ValidToken(reqs[i].token) /\ ValidToken(reqs[j].token)
          /\ reqs[i].was = "PENDING"
          /\ reqs[i].result \in {"Ok", "AlreadySent"}
          /\ reqs[j].result \in {"Ok", "AlreadySent"}
          /\ \A k \in DOMAIN reqs \ {i, j} : reqs[k].id # reqs[i].id )
        => /\ Cardinality(DraftPushesBy(i) \cup DraftPushesBy(j)) = 1
           /\ store[FindRowById(reqs[i].id)].status = "SENT"

\* C5: an /approve request with a valid token that finds its row's status
\* SENT answers success, pushes nothing and calls no updateStatus.
C5_ApproveSentIsNoop ==
    \A i \in DOMAIN reqs :
        ( /\ reqs[i].op = "approve"
          /\ ValidToken(reqs[i].token)
          /\ reqs[i].row.status = "SENT" )
        => /\ reqs[i].pc = "done"
           /\ reqs[i].result = "AlreadySent"
           /\ DraftPushesBy(i) = {}
           /\ reqs[i].writes = 0

\* An /approve request with a valid token found its row SENT and has answered.
C5_Witness ==
    \E i \in DOMAIN reqs :
        /\ reqs[i].op = "approve"
        /\ ValidToken(reqs[i].token)
        /\ reqs[i].was = "SENT"
        /\ reqs[i].row.status = "SENT"
        /\ reqs[i].pc = "done"

\* C6: no step changes a row's status except from PENDING.
C6_StatusMonotone ==
    [][\A k \in DOMAIN store :
          store'[k].status # store[k].status => store[k].status = "PENDING"]_vars

\* C7: an /approve or /reject request whose token is missing or is not the
\* configured secret answers Forbidden, pushes nothing and calls no
\* updateStatus, whatever the status of the row it names.
C7_BadTokenForbidden ==
    \A i \in DOMAIN reqs :
        (reqs[i].op \in {"approve", "reject"} /\ ~ValidToken(reqs[i].token))
        => /\ reqs[i].pc = "done"
           /\ reqs[i].result = "Forbidden"
           /\ DraftPushesBy(i) = {}
           /\ reqs[i].writes = 0

\* Request i is an /approve whose push of the draft failed.
SendFailed(i) == \E p \in DraftPushesBy(i) : ~p.ok

\* C8: an /approve request whose push fails answers with an error and calls
\* no updateStatus, and the failing step leaves every row as it was; an
\* /approve that finds the row not SENT pushes the draft (again).
C8_SendFailureKeepsStatus ==
    /\ [](\A i \in DOMAIN reqs :
            /\ SendFailed(i) =>
                  /\ reqs[i].pc = "done"
                  /\ reqs[i].result = "ServerError"
                  /\ reqs[i].writes = 0
            /\ ( /\ reqs[i].op = "approve"
                 /\ reqs[i].row.status \in {"PENDING", "REJECTED"}
                 /\ reqs[i].pc # "send" ) => DraftPushesBy(i) # {})
    /\ [][\A i \in DOMAIN reqs :
            (SendFailed(i)' /\ ~SendFailed(i)) => store' = store]_vars

\* An /approve failed in its push, the row is still PENDING, and a later
\* /approve of the same row has pushed the draft.
C8_Witness ==
    \E i \in DOMAIN reqs, j \in DOMAIN reqs :
        /\ i < j
        /\ reqs[i].id = reqs[j].id
        /\ SendFailed(i)
        /\ reqs[i].row.status = "PENDING"
        /\ reqs[j].was = "PENDING"
        /\ \E p \in DraftPushesBy(j) : p.ok

\* The rows stored for the batch of flush i.
RowsOf(i) == {k \in DOMAIN store : store[k].userText = JoinTexts(flushes[i].texts)}

\* C9: a flush whose completion request failed or came back empty took the
\* fallback reply as its draft and, unless appendRow itself failed, stored
\* exactly one PENDING row with it for its batch.
C9_DraftNeverAborts ==
    \A i \in DOMAIN flushes :
        (flushes[i].gen \in {"empty", "throws"} /\ flushes[i].append # "throws")
        => /\ flushes[i].pc = "done"
           /\ Cardinality(RowsOf(i)) = 1
           /\ \A k \in RowsOf(i) :
                 store[k] = Row(flushes[i].user, JoinTexts(flushes[i].texts),
                                Fallback, "PENDING", k)

\* Whether string s contains string sub.
Contains(s, sub) ==
    \E k \in 0..(Len(s) - Len(sub)) : SubSeq(s, k + 1, k + Len(sub)) = sub

\* C10: formatRecentPairs returns at most CharLimit characters, and when it
\* truncates, what it keeps contains the rendering of the last (most recent)
\* exchange of the list.
C10_FormatRecentPairs ==
    recentStr.done =>
        /\ Len(recentStr.out) <= CharLimit
        /\ Len(RenderRecent(pairsIn, RecentN)) > CharLimit =>
              Contains(recentStr.out, RenderPair(pairsIn[Len(pairsIn)]))

\* The score of a row against the query.
ScoreOf(r) == KeywordOverlapScore(query, r.userText)

\* C11: retrieveSimilarFromLogs returns at most TopK rows, each a SENT row of
\* the sheet (of any user) whose score against the query is positive, in
\* order of non-increasing score, rows of equal score in sheet order.
C11_Retrieve ==
    similar.done =>
        /\ Len(similar.out) <= TopK
        /\ \A j \in DOMAIN similar.out :
              /\ similar.out[j] \in {store[k] : k \in DOMAIN store}
              /\ similar.out[j].status = "SENT"
              /\ ScoreOf(similar.out[j]) > 0
        /\ \A i \in DOMAIN similar.out, j \in DOMAIN similar.out :
              i < j =>
                 /\ ScoreOf(similar.out[i]) >= ScoreOf(similar.out[j])
                 /\ ScoreOf(similar.out[i]) = ScoreOf(similar.out[j])
                       => similar.out[i].rowId < similar.out[j].rowId

\* Retrieval returned TopK rows of equal score, of different users, from a
\* sheet that holds a row of positive score that is not SENT and leaves out a
\* SENT row of positive score.
C11_Witness ==
    /\ similar.done
    /\ Len(similar.out) = TopK
    /\ ScoreOf(similar.out[1]) = ScoreOf(similar.out[2])
    /\ similar.out[1].userId # similar.out[2].userId
    /\ \E k \in DOMAIN store : store[k].status # "SENT" /\ ScoreOf(store[k]) > 0
    /\ \E k \in DOMAIN store :
          /\ store[k].status = "SENT" /\ ScoreOf(store[k]) > 0
          /\ \A j \in DOMAIN similar.out : similar.out[j] # store[k]

\* C12: for every user the summarization completion is requested at most
\* once in a run, whatever its outcome and however the user's flushes
\* overlap, and it is never requested while the user has a digest.
C12_SummarizeOnce ==
    /\ [](\A u \in Users : summarizeCalls[u] <= 1)
    /\ [][\A u \in Users :
            summarizeCalls'[u] > summarizeCalls[u] => u \notin summaries]_vars

\* Request j is a /reject with a valid token that arrived when its row was
\* SENT by the completed /approve i, the only other request on that row.
RejectAfterApprove(i, j) ==
    /\ i < j
    /\ reqs[i].op = "approve" /\ reqs[j].op = "reject"
    /\ reqs[i].id = reqs[j].id
    /\ ValidToken(reqs[i].token) /\ ValidToken(reqs[j].token)
    /\ reqs[i].was # "SENT" /\ reqs[i].result = "Ok"
    /\ reqs[j].was = "SENT"
    /\ \A k \in DOMAIN reqs \ {i, j} : reqs[k].id # reqs[j].id

\* C13: a /reject with a valid token is refused for no status: on a row that
\* exists it answers success unless a call to the sheet fails, and the step
\* in which it answers success leaves the row REJECTED whatever its status
\* was; issued after a completed /approve, it leaves the row REJECTED.
C13_RejectOverwrites ==
    /\ [](\A j \in DOMAIN reqs :
            /\ ( /\ reqs[j].op = "reject" /\ ValidToken(reqs[j].token)
                 /\ reqs[j].pc = "done"
                 /\ FindRowById(reqs[j].id) # None )
               => reqs[j].result \in {"Ok", "ServerError"}
            /\ \A i \in DOMAIN reqs :
                  (RejectAfterApprove(i, j) /\ reqs[j].result = "Ok")
                  => store[FindRowById(reqs[j].id)].status = "REJECTED")
    /\ [][\A j \in DOMAIN reqs :
            ( /\ reqs[j].op = "reject"
              /\ reqs[j].pc # "done"
              /\ reqs'[j].result = "Ok" )
            => store'[FindRowById(reqs[j].id)].status = "REJECTED"]_vars

\* A /reject issued after a completed /approve of the same row has answered
\* success.
C13_Witness ==
    \E i \in DOMAIN reqs, j \in DOMAIN reqs :
        RejectAfterApprove(i, j) /\ reqs[j].result = "Ok"

\* The live timers of a user.
TimersOf(u) == {t \in timers : t.user = u}

\* C14: a user never has two live timers, a live timer is the timer of the
\* buffer the user has in the map, and no cancelled timer has flushed: the
\* texts under a live timer are in no flush and no text is in two flushes.
C14_OneLiveTimer ==
    /\ \A u \in Users :
          /\ Cardinality(TimersOf(u)) <= 1
          /\ \A t \in TimersOf(u) : buffers[u] = t.buf
    /\ \A t \in timers, i \in DOMAIN flushes :
          \A k \in DOMAIN heap[t.buf] : ~InBatch(heap[t.buf][k], i)
    /\ \A m \in DOMAIN arrived :
          Cardinality({i \in DOMAIN flushes : InBatch(m, i)}) <= 1

\* A timer was cancelled and armed again: a flush holds two texts that were
\* buffered at different times (no notice is sent, a text is buffered as it
\* arrives).
C14_Witness ==
    \E i \in DOMAIN flushes :
        /\ Len(flushes[i].texts) = 2
        /\ arrived[flushes[i].texts[1]].at # arrived[flushes[i].texts[2]].at
        /\ ~ADMIN_USER_ID

\* The place of text m in the batch of flush i.
PlaceIn(m, i) == CHOOSE k \in DOMAIN flushes[i].texts : flushes[i].texts[k] = m

\* C15: of two texts of a user, the one submitted first is never flushed in
\* a later batch than the other and never stands after it in a batch,
\* whether or not a quick-notice push is in flight.
C15_ArrivalOrder ==
    \A m \in DOMAIN arrived, n \in DOMAIN arrived :
        (m < n /\ arrived[m].user = arrived[n].user) =>
            \A i \in DOMAIN flushes, j \in DOMAIN flushes :
                (InBatch(m, i) /\ InBatch(n, j)) =>
                    /\ i <= j
                    /\ i = j => PlaceIn(m, i) < PlaceIn(n, j)

\* The texts of user u for which a quick notice reached the admin.
QuickNoticesOf(u) ==
    {p.by : p \in {q \in pushes : q.kind = "quick" /\ q.ok /\ arrived[q.by].user = u}}

\* C16: two quick notices sent for texts of one user are for texts that
\* arrived more than QUICK_COOLDOWN apart.
C16_QuickCooldown ==
    \A u \in Users :
        \A m \in QuickNoticesOf(u), n \in QuickNoticesOf(u) :
            m < n => arrived[n].at - arrived[m].at > QUICK_COOLDOWN

\* Text m has been handed to the flush pipeline.
Flushed(m) == \E i \in DOMAIN flushes : InBatch(m, i)

\* C17: every text bufferIncoming accepted is in the end handed to the flush
\* pipeline (again and again every text accepted so far has been handed
\* over, and a text handed over stays so), no text is ever in two batches,
\* and a batch that was handed over never changes: a text that arrives later
\* is not added to it.
C17_NoLossNoDuplication ==
    /\ []<>(\A m \in DOMAIN arrived : Flushed(m))
    /\ [](\A m \in DOMAIN arrived :
             Cardinality({i \in DOMAIN flushes : InBatch(m, i)}) <= 1)
    /\ [][\A i \in DOMAIN flushes : flushes'[i].texts = flushes[i].texts]_vars

\* A text of a user arrived after the user's timer had fired, while that
\* flush's pipeline had not finished, and was flushed in a batch of its own.
C17_Witness ==
    \E i \in DOMAIN flushes, j \in DOMAIN flushes :
        /\ i < j
        /\ flushes[i].user = flushes[j].user
        /\ flushes[i].pc # "done"
        /\ flushes[j].texts = <<Len(arrived)>>
        /\ \A k \in DOMAIN flushes[i].texts :
              arrived[flushes[i].texts[k]].at + WINDOW_SEC <= arrived[Len(arrived)].at

\* C18: an /approve request with a valid token that finds its row REJECTED
\* pushes nothing and calls no updateStatus.
C18_RejectedNeverSent ==
    \A i \in DOMAIN reqs :
        ( /\ reqs[i].op = "approve"
          /\ ValidToken(reqs[i].token)
          /\ reqs[i].row.status = "REJECTED" )
        => /\ DraftPushesBy(i) = {}
           /\ reqs[i].writes = 0

\* C19: when no secret is configured, a /review, /approve or /reject request
\* that names a row and carries no token answers Forbidden, pushes nothing
\* and calls no updateStatus.
C19_NoSecretNoAccess ==
    APPROVE_TOKEN = Undefined =>
        \A i \in DOMAIN reqs :
            (reqs[i].id # NoId /\ reqs[i].token = Undefined)
            => /\ reqs[i].pc = "done" => reqs[i].result = "Forbidden"
               /\ reqs[i].row = NoRow
               /\ DraftPushesBy(i) = {}
               /\ reqs[i].writes = 0

\* Request i is an /approve whose push succeeded and whose updateStatus
\* failed.
UpdateFailed(i) ==
    /\ reqs[i].op = "approve"
    /\ \E p \in DraftPushesBy(i) : p.ok
    /\ reqs[i].writes = 1
    /\ reqs[i].result = "ServerError"

\* The requests that delivered the draft of row id.
SentBy(id) == {i \in DOMAIN reqs : reqs[i].id = id /\ \E p \in DraftPushesBy(i) : p.ok}

\* C20: with no two requests overlapping, an /approve of a PENDING row whose
\* push succeeds and whose updateStatus fails leaves the row PENDING, the
\* /approve that follows it pushes the draft again, and a row's draft is
\* delivered twice only after such a failed update.
C20_PartialFailureWindow ==
    /\ \A i \in DOMAIN reqs :
          ( /\ UpdateFailed(i) /\ reqs[i].was = "PENDING"
            /\ \A k \in DOMAIN reqs : k > i => reqs[k].id # reqs[i].id )
          => store[FindRowById(reqs[i].id)].status = "PENDING"
    /\ \A i \in DOMAIN reqs, j \in DOMAIN reqs :
          ( /\ UpdateFailed(i) /\ reqs[i].was = "PENDING"
            /\ j > i /\ reqs[j].op = "approve" /\ reqs[j].id = reqs[i].id
            /\ reqs[j].row.status = "PENDING" /\ reqs[j].pc # "send" )
          => DraftPushesBy(j) # {}
    /\ \A id \in 1..Len(store) :
          Cardinality(SentBy(id)) >= 2 => \E i \in SentBy(id) : UpdateFailed(i)

====
